---- MODULE Spec2Model ----
(***************************************************************************)
(* Model of InventoryGenerator (generate_inventory.py): the address plan   *)
(* computed by generate_ip_addresses, the device records built by          *)
(* generate_spine_config / generate_leaf_config / generate_inventory, and  *)
(* the control flow of run.                                                *)
(*                                                                         *)
(* Python values are represented as follows.                               *)
(*   str             a TLA+ string, built with \o and ToString             *)
(*   list            a sequence                                            *)
(*   dict            a function whose domain is the set of keys            *)
(*   None / unbound  the empty sequence; a bound value x is <<x>>          *)
(*   a CIDR string   the record [addr, prefix] of its two numbers; the     *)
(*                   strictness check and the host enumeration of          *)
(*                   ipaddress.IPv4Network are computed from them          *)
(***************************************************************************)
EXTENDS Integers, Sequences, FiniteSets, TLC

\* Largest spine_count / leaf_count the configurations range over.
MaxCount == 2

VARIABLES
    config,            \* the config dict handed to the generator
    pc,                \* control point of run
    i,                 \* index of the single for-loops
    spine_idx,         \* outer index of the interconnect loop
    leaf_idx,          \* inner index of the interconnect loop
    ip_iter,           \* number of hosts already drawn from iter(interconnect_net.hosts())
    spine_loopbacks,   \* locals of generate_ip_addresses
    leaf_loopbacks,
    vtep_loopbacks,
    interconnect_ips,
    mgmt_ips,
    ip_scheme,         \* run's ip_scheme: None until generate_ip_addresses returns
    hosts,             \* generate_inventory's local inventory under construction
    inventory,         \* run's inventory: None until generate_inventory returns
    error,             \* the exception that ended run, None if none
    file,              \* content of inventory/hosts.yml, None if never written
    save_calls,        \* number of calls of save_inventory
    confirm,           \* run's confirm: the normalised answer to the save prompt, None before
    self_inventory,    \* the generator's field self.inventory
    self_ip_scheme,    \* the generator's field self.ip_scheme
    returned           \* the earlier calls of generate_ip_addresses: config and outcome

vars == <<config, pc, i, spine_idx, leaf_idx, ip_iter, spine_loopbacks,
          leaf_loopbacks, vtep_loopbacks, interconnect_ips, mgmt_ips,
          ip_scheme, hosts, inventory, error, file, save_calls,
          confirm, self_inventory, self_ip_scheme, returned>>

\* the generator's fields
self == <<self_inventory, self_ip_scheme>>

planLocals == <<i, spine_idx, leaf_idx, ip_iter, spine_loopbacks,
                leaf_loopbacks, vtep_loopbacks, interconnect_ips, mgmt_ips>>

None == << >>
Some(x) == <<x>>
EmptyDict == << >>

----------------------------------------------------------------------------
\* Strings

\* f"{role}{n:02d}"
Hostname(role, n) == role \o (IF n < 10 THEN "0" ELSE "") \o ToString(n)

\* f"spine{spine_idx+1}_leaf{leaf_idx+1}"
PairKey(s, l) == "spine" \o ToString(s + 1) \o "_leaf" \o ToString(l + 1)

\* str(IPv4Address): dotted quad of a 32-bit number
Str(ip) ==
    ToString(ip \div 16777216) \o "." \o ToString((ip \div 65536) % 256) \o "."
        \o ToString((ip \div 256) % 256) \o "." \o ToString(ip % 256)

\* f"10GE1/0/{n}"
InterfaceName(n) == "10GE1/0/" \o n

----------------------------------------------------------------------------
\* ipaddress.IPv4Network

\* strict parsing: a CIDR with host bits set raises ValueError
ValidNetwork(s) == s.addr % (2 ^ (32 - s.prefix)) = 0

IPv4Network(s) == [network_address |-> s.addr, prefixlen |-> s.prefix]

\* len(list(net.hosts())): network and broadcast address are left out,
\* except for /31 (both addresses) and /32 (the single address)
NumHosts(net) ==
    CASE net.prefixlen = 32 -> 1
      [] net.prefixlen = 31 -> 2
      [] OTHER -> 2 ^ (32 - net.prefixlen) - 2

\* list(net.hosts())[k], ascending
HostAt(net, k) ==
    IF net.prefixlen >= 31 THEN net.network_address + k
                           ELSE net.network_address + 1 + k

----------------------------------------------------------------------------
\* The configurations the model ranges over

\* the number a dotted quad denotes
Ip(a, b, c, d) == ((a * 256 + b) * 256 + c) * 256 + d

Cidr(a, p) == [addr |-> a, prefix |-> p]

\* config['spine_loopback_subnet']: the prompt's default, and a single-host net
SpineSubnets == {Cidr(Ip(10, 255, 1, 0), 24), Cidr(Ip(10, 255, 1, 0), 32)}

\* config['leaf_loopback_subnet']: the default, and the spine default again
LeafSubnets == {Cidr(Ip(10, 255, 2, 0), 24), Cidr(Ip(10, 255, 1, 0), 24)}

\* config['vtep_loopback_subnet']: the default, and a /31
VtepSubnets == {Cidr(Ip(10, 255, 3, 0), 24), Cidr(Ip(10, 255, 3, 0), 31)}

\* config['interconnect_subnet_base']: the default, nets of 6 and of 2 hosts,
\* and a CIDR with host bits set
InterconnectSubnets ==
    {Cidr(Ip(10, 1, 0, 0), 16), Cidr(Ip(10, 1, 0, 0), 29),
     Cidr(Ip(10, 1, 0, 0), 30), Cidr(Ip(10, 1, 0, 1), 30)}

\* int(input(...)) accepts any integer: negative, zero and positive counts
Counts == -1 .. MaxCount

SpineName(n) == Hostname("spine", n)
LeafName(n) == Hostname("leaf", n)

\* the hostnames role01..role0k, and the number a hostname carries
Hostnames(role, k) == {Hostname(role, n) : n \in 1 .. k}
HostNumber(role, h, k) == CHOOSE n \in 1 .. k : Hostname(role, n) = h

\* config['spine_mgmt_ips'] / config['leaf_mgmt_ips'] as the caller may supply them:
\* one address per hostname, the same address for all, or the last hostname missing
MgmtShapes == {"full", "repeat", "no_spine", "no_leaf"}

SpineMgmtIps(shape, ns) ==
    LET k == IF shape = "no_spine" THEN ns - 1 ELSE ns
    IN  [h \in Hostnames("spine", k) |->
            IF shape = "repeat" THEN "192.168.1.10"
            ELSE "192.168.1." \o ToString(10 + HostNumber("spine", h, k))]

LeafMgmtIps(shape, nl) ==
    LET k == IF shape = "no_leaf" THEN nl - 1 ELSE nl
    IN  [h \in Hostnames("leaf", k) |->
            IF shape = "repeat" THEN "192.168.1.10"
            ELSE "192.168.1." \o ToString(20 + HostNumber("leaf", h, k))]

\* the management part of a config
MgmtConfigs(ns, nl) ==
    {[mgmt_mode |-> "auto", mgmt_base_ip |-> a[1], mgmt_start |-> a[2],
      spine_mgmt_ips |-> EmptyDict, leaf_mgmt_ips |-> EmptyDict] :
        a \in {<<"192.168.1", 10>>, <<"10.255.1", 1>>}}
    \cup
    {[mgmt_mode |-> "manual", mgmt_base_ip |-> "", mgmt_start |-> 0,
      spine_mgmt_ips |-> SpineMgmtIps(sh, ns),
      leaf_mgmt_ips |-> LeafMgmtIps(sh, nl)] : sh \in MgmtShapes}

\* config['spine_interfaces'] / config['leaf_interfaces'] as the caller may supply
\* them: get_user_input's defaults, every list one entry short, the last hostname
\* without a list, every list one entry long
InterfaceShapes == {"full", "short", "nohost", "long"}

ShapeLen(shape, n) ==
    CASE shape = "short" -> IF n >= 1 THEN n - 1 ELSE 0
      [] shape = "long" -> (IF n >= 0 THEN n ELSE 0) + 1
      [] OTHER -> IF n >= 0 THEN n ELSE 0

SpineInterfaces(shape, ns, nl) ==
    LET m == IF shape = "nohost" THEN ns - 1 ELSE ns
    IN  [h \in Hostnames("spine", m) |->
            [k \in 1 .. ShapeLen(shape, nl) |->
                InterfaceName(ToString((HostNumber("spine", h, m) - 1) + (k - 1) + 1))]]

LeafInterfaces(shape, ns, nl) ==
    LET up == IF ns >= 0 THEN ns ELSE 0
        m == IF shape = "nohost" THEN nl - 1 ELSE nl
    IN  [h \in Hostnames("leaf", m) |->
            [k \in 1 .. ShapeLen(shape, up + 1) |->
                IF k <= up
                THEN InterfaceName(ToString((k - 1) + (HostNumber("leaf", h, m) - 1) + 1))
                ELSE InterfaceName(ToString(48 + (k - up - 1)))]]

\* the interface part of a config
InterfaceConfigs(ns, nl) ==
    {[interface_mapping_mode |-> "1", spine_interface_start |-> 1,
      leaf_interface_start |-> st, leaf_access_interface |-> "48",
      spine_interfaces |-> EmptyDict, leaf_interfaces |-> EmptyDict] :
        st \in {1, 47}}
    \cup
    {[interface_mapping_mode |-> "2", spine_interface_start |-> 1,
      leaf_interface_start |-> 1, leaf_access_interface |-> "48",
      spine_interfaces |-> SpineInterfaces(sh, ns, nl),
      leaf_interfaces |-> LeafInterfaces(sh, ns, nl)] : sh \in InterfaceShapes}

\* the config dict made of subnets, counts, a management part and an interface part
Config(sl, ll, vl, ic, ns, nl, m, f) ==
    [fabric_name |-> "spine_leaf_fabric", asn |-> "65000",
     spine_loopback_subnet |-> sl, leaf_loopback_subnet |-> ll,
     vtep_loopback_subnet |-> vl, interconnect_subnet_base |-> ic,
     spine_count |-> ns, leaf_count |-> nl,
     mgmt_mode |-> m.mgmt_mode, mgmt_base_ip |-> m.mgmt_base_ip,
     mgmt_start |-> m.mgmt_start, spine_mgmt_ips |-> m.spine_mgmt_ips,
     leaf_mgmt_ips |-> m.leaf_mgmt_ips,
     interface_mapping_mode |-> f.interface_mapping_mode,
     spine_interface_start |-> f.spine_interface_start,
     leaf_interface_start |-> f.leaf_interface_start,
     leaf_access_interface |-> f.leaf_access_interface,
     spine_interfaces |-> f.spine_interfaces,
     leaf_interfaces |-> f.leaf_interfaces]

----------------------------------------------------------------------------
\* generate_ip_addresses

\* the four configured CIDRs in the order they are parsed
Subnets(cfg) ==
    <<cfg.spine_loopback_subnet, cfg.leaf_loopback_subnet,
      cfg.vtep_loopback_subnet, cfg.interconnect_subnet_base>>

spine_loopback_net == IPv4Network(config.spine_loopback_subnet)
leaf_loopback_net == IPv4Network(config.leaf_loopback_subnet)
vtep_loopback_net == IPv4Network(config.vtep_loopback_subnet)
interconnect_net == IPv4Network(config.interconnect_subnet_base)

\* an exception leaves the function: run's handler records it and run ends
Raise(exc) ==
    /\ error' = Some(exc)
    /\ pc' = "done"

\* variant of LoopbackEntry: indexes the network's addresses instead of its hosts
LoopbackEntryOfNetwork(net, k) == Str(net.network_address + k) \o "/32"

\* f"{ip}/32" for ip = list(net.hosts())[k]
LoopbackEntry(net, k) == Str(HostAt(net, k)) \o "/32"

\* the four IPv4Network(...) constructions
ParseSubnets ==
    /\ pc = "parse"
    /\ IF \A k \in 1 .. 4 : ValidNetwork(Subnets(config)[k])
       THEN /\ pc' = "spine_loopbacks"
            /\ error' = error
       ELSE Raise(<<"ValueError">>)
    /\ UNCHANGED <<config, self, returned, confirm, planLocals, ip_scheme, hosts, inventory, file, save_calls>>

\* one iteration of a loopback loop over range(count): index the host list,
\* append the entry; after the last iteration control passes to `next`
LoopbackLoop(net, count, list, next) ==
    IF i < count
    THEN IF i < NumHosts(net)
         THEN /\ list' = Append(list, LoopbackEntry(net, i))
              /\ i' = i + 1
              /\ pc' = pc
              /\ error' = error
         ELSE /\ Raise(<<"IndexError">>)
              /\ UNCHANGED <<list, i>>
    ELSE /\ pc' = next
         /\ i' = 0
         /\ UNCHANGED <<list, error>>

SpineLoopbackStep ==
    /\ pc = "spine_loopbacks"
    /\ LoopbackLoop(spine_loopback_net, config.spine_count, spine_loopbacks,
                    "leaf_loopbacks")
    /\ UNCHANGED <<config, self, returned, confirm, spine_idx, leaf_idx, ip_iter, leaf_loopbacks,
                   vtep_loopbacks, interconnect_ips, mgmt_ips, ip_scheme, hosts,
                   inventory, file, save_calls>>

LeafLoopbackStep ==
    /\ pc = "leaf_loopbacks"
    /\ LoopbackLoop(leaf_loopback_net, config.leaf_count, leaf_loopbacks,
                    "vtep_loopbacks")
    /\ UNCHANGED <<config, self, returned, confirm, spine_idx, leaf_idx, ip_iter, spine_loopbacks,
                   vtep_loopbacks, interconnect_ips, mgmt_ips, ip_scheme, hosts,
                   inventory, file, save_calls>>

VtepLoopbackStep ==
    /\ pc = "vtep_loopbacks"
    /\ LoopbackLoop(vtep_loopback_net, config.leaf_count, vtep_loopbacks,
                    "interconnect")
    /\ UNCHANGED <<config, self, returned, confirm, spine_idx, leaf_idx, ip_iter, spine_loopbacks,
                   leaf_loopbacks, interconnect_ips, mgmt_ips, ip_scheme, hosts,
                   inventory, file, save_calls>>

\* variant of HasNext: the iterator never runs out
HasNextAlways(net, n) == TRUE

\* whether next(ip_iter) yields a host after n hosts were drawn
HasNext(net, n) == n < NumHosts(net)

\* variant of PairEntry: the first host drawn goes to the leaf side
PairEntryLeafFirst(net, n) ==
    [spine_ip |-> Str(HostAt(net, n + 1)) \o "/30",
     leaf_ip |-> Str(HostAt(net, n)) \o "/30"]

\* the dict entry of one pair: the two hosts drawn, spine side first
PairEntry(net, n) ==
    [spine_ip |-> Str(HostAt(net, n)) \o "/30",
     leaf_ip |-> Str(HostAt(net, n + 1)) \o "/30"]

\* the control point after the interconnect loops: the management branch taken
MgmtBranch(cfg) ==
    IF cfg.mgmt_mode = "manual" THEN "mgmt_manual_spine" ELSE "mgmt_auto"

\* one step of the nested interconnect loops
InterconnectStep ==
    /\ pc = "interconnect"
    /\ IF spine_idx < config.spine_count
       THEN IF leaf_idx < config.leaf_count
            THEN IF HasNext(interconnect_net, ip_iter)
                    /\ HasNext(interconnect_net, ip_iter + 1)
                 THEN /\ interconnect_ips' =
                            (PairKey(spine_idx, leaf_idx) :>
                                PairEntry(interconnect_net, ip_iter))
                            @@ interconnect_ips
                      /\ ip_iter' = ip_iter + 2
                      /\ leaf_idx' = leaf_idx + 1
                      /\ UNCHANGED <<spine_idx, pc, error>>
                 ELSE /\ Raise(<<"StopIteration">>)
                      /\ ip_iter' = IF HasNext(interconnect_net, ip_iter)
                                    THEN ip_iter + 1 ELSE ip_iter
                      /\ UNCHANGED <<interconnect_ips, spine_idx, leaf_idx>>
            ELSE /\ spine_idx' = spine_idx + 1
                 /\ leaf_idx' = 0
                 /\ UNCHANGED <<interconnect_ips, ip_iter, pc, error>>
       ELSE /\ pc' = MgmtBranch(config)
            /\ UNCHANGED <<interconnect_ips, ip_iter, spine_idx, leaf_idx, error>>
    /\ UNCHANGED <<config, self, returned, confirm, i, spine_loopbacks, leaf_loopbacks, vtep_loopbacks,
                   mgmt_ips, ip_scheme, hosts, inventory, file, save_calls>>

\* variant of Lookup: d.get(key, ""), a missing key yields the empty string
LookupOrDefault(d, key) == IF key \in DOMAIN d THEN Some(d[key]) ELSE Some("")

\* d[key]: the value, or None where Python raises KeyError
Lookup(d, key) == IF key \in DOMAIN d THEN Some(d[key]) ELSE None

\* one iteration of a manual-mode loop over range(count): look the hostname up
\* and append its address; after the last iteration control passes to `next`
ManualLoop(role, count, d, next) ==
    IF i < count
    THEN LET hostname == Hostname(role, i + 1)
             found == Lookup(d, hostname)
         IN  IF found # None
             THEN /\ mgmt_ips' = Append(mgmt_ips, found[1])
                  /\ i' = i + 1
                  /\ UNCHANGED <<pc, error>>
             ELSE /\ Raise(<<"KeyError", hostname>>)
                  /\ UNCHANGED <<mgmt_ips, i>>
    ELSE /\ pc' = next
         /\ i' = 0
         /\ UNCHANGED <<mgmt_ips, error>>

ManualSpineStep ==
    /\ pc = "mgmt_manual_spine"
    /\ ManualLoop("spine", config.spine_count, config.spine_mgmt_ips,
                  "mgmt_manual_leaf")
    /\ UNCHANGED <<config, self, returned, confirm, spine_idx, leaf_idx, ip_iter, spine_loopbacks,
                   leaf_loopbacks, vtep_loopbacks, interconnect_ips, ip_scheme,
                   hosts, inventory, file, save_calls>>

ManualLeafStep ==
    /\ pc = "mgmt_manual_leaf"
    /\ ManualLoop("leaf", config.leaf_count, config.leaf_mgmt_ips, "return_plan")
    /\ UNCHANGED <<config, self, returned, confirm, spine_idx, leaf_idx, ip_iter, spine_loopbacks,
                   leaf_loopbacks, vtep_loopbacks, interconnect_ips, ip_scheme,
                   hosts, inventory, file, save_calls>>

\* f"{config['mgmt_base_ip']}.{config['mgmt_start'] + k}"
AutoMgmtIp(cfg, k) == cfg.mgmt_base_ip \o "." \o ToString(cfg.mgmt_start + k)

\* one iteration of the auto-mode loop over range(spine_count + leaf_count)
AutoMgmtStep ==
    /\ pc = "mgmt_auto"
    /\ IF i < config.spine_count + config.leaf_count
       THEN /\ mgmt_ips' = Append(mgmt_ips, AutoMgmtIp(config, i))
            /\ i' = i + 1
            /\ pc' = pc
       ELSE /\ pc' = "return_plan"
            /\ i' = 0
            /\ mgmt_ips' = mgmt_ips
    /\ UNCHANGED <<config, self, returned, confirm, spine_idx, leaf_idx, ip_iter, spine_loopbacks,
                   leaf_loopbacks, vtep_loopbacks, interconnect_ips, ip_scheme,
                   hosts, inventory, error, file, save_calls>>

\* the dict generate_ip_addresses returns
Scheme ==
    [spine_loopbacks |-> spine_loopbacks, leaf_loopbacks |-> leaf_loopbacks,
     vtep_loopbacks |-> vtep_loopbacks, interconnect_ips |-> interconnect_ips,
     mgmt_ips |-> mgmt_ips]

\* the inventory generate_inventory starts from: all.vars and the two empty
\* host groups all.children.spine.hosts and all.children.leaf.hosts
InventorySkeleton(cfg) ==
    [vars |-> [fabric_name |-> cfg.fabric_name, asn |-> cfg.asn,
               spine_loopback_subnet |-> cfg.spine_loopback_subnet,
               leaf_loopback_subnet |-> cfg.leaf_loopback_subnet,
               vtep_loopback_subnet |-> cfg.vtep_loopback_subnet,
               interconnect_subnet_base |-> cfg.interconnect_subnet_base],
     spine |-> EmptyDict, leaf |-> EmptyDict]

\* generate_ip_addresses returns to run, which calls generate_inventory
ReturnPlan ==
    /\ pc = "return_plan"
    /\ ip_scheme' = Some(Scheme)
    /\ hosts' = InventorySkeleton(config)
    /\ pc' = "build_spine"
    /\ UNCHANGED <<config, self, returned, confirm, planLocals, inventory, error, file, save_calls>>

----------------------------------------------------------------------------
\* generate_spine_config, generate_leaf_config, generate_inventory

\* dict.get(key, []) of the exact-match interface lists
GetList(d, key) == IF key \in DOMAIN d THEN d[key] ELSE << >>

\* list[k] of a Python list: a negative k counts from the end; None where
\* Python raises IndexError
Index(list, k) ==
    CASE 0 <= k /\ k < Len(list) -> Some(list[k + 1])
      [] k < 0 /\ -Len(list) <= k -> Some(list[Len(list) + k + 1])
      [] OTHER -> None

\* the management address of a device: the caller's in manual mode, else the
\* plan's entry at the device's position; None where the lookup raises
SpineMgmtIp(s, cfg, scheme) ==
    IF cfg.mgmt_mode = "manual"
    THEN Lookup(cfg.spine_mgmt_ips, Hostname("spine", s + 1))
    ELSE Index(scheme.mgmt_ips, s)

\* variant of LeafMgmtIp: the plan's entry at the leaf index, spines not skipped
LeafMgmtIpNoOffset(l, cfg, scheme) ==
    IF cfg.mgmt_mode = "manual"
    THEN Lookup(cfg.leaf_mgmt_ips, Hostname("leaf", l + 1))
    ELSE Index(scheme.mgmt_ips, l)

LeafMgmtIp(l, cfg, scheme) ==
    IF cfg.mgmt_mode = "manual"
    THEN Lookup(cfg.leaf_mgmt_ips, Hostname("leaf", l + 1))
    ELSE Index(scheme.mgmt_ips, cfg.spine_count + l)

\* the uplink entry of spine s towards leaf l
SpineLink(s, l, name, scheme) ==
    [interface |-> name,
     description |-> "Link to " \o Hostname("leaf", l + 1),
     ip |-> scheme.interconnect_ips[PairKey(s, l)].spine_ip]

\* the uplink entry of leaf l towards spine s
LeafLink(s, l, name, scheme) ==
    [interface |-> name,
     description |-> "Link to " \o Hostname("spine", s + 1),
     ip |-> scheme.interconnect_ips[PairKey(s, l)].leaf_ip]

\* the access-port entry of leaf l
AccessPort(l, name) ==
    [interface |-> name, description |-> "Server Access", mode |-> "access",
     vlan |-> ToString(100 + l)]

\* exact mapping, spine: enumerate(interfaces), entries past leaf_count skipped
RECURSIVE SpineExactLoop(_, _, _, _, _, _)
SpineExactLoop(s, cfg, scheme, interfaces, l, acc) ==
    IF l >= Len(interfaces) THEN acc
    ELSE SpineExactLoop(s, cfg, scheme, interfaces, l + 1,
            IF l < cfg.leaf_count
            THEN Append(acc, SpineLink(s, l, interfaces[l + 1], scheme))
            ELSE acc)

\* sequential numbering, spine: range(leaf_count) with a running interface_num
RECURSIVE SpineSequentialLoop(_, _, _, _, _, _)
SpineSequentialLoop(s, cfg, scheme, l, interface_num, acc) ==
    IF l >= cfg.leaf_count THEN acc
    ELSE SpineSequentialLoop(s, cfg, scheme, l + 1, interface_num + 1,
            Append(acc, SpineLink(s, l, InterfaceName(ToString(interface_num)),
                                  scheme)))

SpineInterfaceList(s, cfg, scheme) ==
    IF cfg.interface_mapping_mode = "2"
    THEN SpineExactLoop(s, cfg, scheme,
            GetList(cfg.spine_interfaces, Hostname("spine", s + 1)), 0, << >>)
    ELSE SpineSequentialLoop(s, cfg, scheme, 0, cfg.spine_interface_start, << >>)

\* the record of spine s, or None where a lookup raises
generate_spine_config(s, cfg, scheme) ==
    LET mgmt_ip == SpineMgmtIp(s, cfg, scheme)
    IN  IF mgmt_ip = None THEN None
        ELSE Some([ansible_host |-> mgmt_ip[1],
                   spine_id |-> s + 1,
                   loopback0 |-> scheme.spine_loopbacks[s + 1],
                   spine_interfaces |-> SpineInterfaceList(s, cfg, scheme)])

\* exact mapping, leaf: enumerate(interfaces), entries past spine_count skipped
RECURSIVE LeafExactLoop(_, _, _, _, _, _)
LeafExactLoop(l, cfg, scheme, interfaces, s, acc) ==
    IF s >= Len(interfaces) THEN acc
    ELSE LeafExactLoop(l, cfg, scheme, interfaces, s + 1,
            IF s < cfg.spine_count
            THEN Append(acc, LeafLink(s, l, interfaces[s + 1], scheme))
            ELSE acc)

\* exact mapping, leaf: the access port is interfaces[spine_count] when
\* len(interfaces) > spine_count; None where that index raises
LeafExactAccess(l, cfg, interfaces, acc) ==
    IF Len(interfaces) > cfg.spine_count
    THEN LET access_interface == Index(interfaces, cfg.spine_count)
         IN  IF access_interface = None THEN None
             ELSE Some(Append(acc, AccessPort(l, access_interface[1])))
    ELSE Some(acc)

\* sequential numbering, leaf: range(spine_count) with a running interface_num
RECURSIVE LeafSequentialLoop(_, _, _, _, _, _)
LeafSequentialLoop(l, cfg, scheme, s, interface_num, acc) ==
    IF s >= cfg.spine_count THEN acc
    ELSE LeafSequentialLoop(l, cfg, scheme, s + 1, interface_num + 1,
            Append(acc, LeafLink(s, l, InterfaceName(ToString(interface_num)),
                                 scheme)))

LeafInterfaceList(l, cfg, scheme) ==
    IF cfg.interface_mapping_mode = "2"
    THEN LET interfaces == GetList(cfg.leaf_interfaces, Hostname("leaf", l + 1))
         IN  LeafExactAccess(l, cfg, interfaces,
                 LeafExactLoop(l, cfg, scheme, interfaces, 0, << >>))
    ELSE Some(Append(LeafSequentialLoop(l, cfg, scheme, 0,
                                        cfg.leaf_interface_start, << >>),
                     AccessPort(l, InterfaceName(cfg.leaf_access_interface))))

\* the record of leaf l, or None where a lookup raises
generate_leaf_config(l, cfg, scheme) ==
    LET mgmt_ip == LeafMgmtIp(l, cfg, scheme)
        leaf_interfaces == LeafInterfaceList(l, cfg, scheme)
    IN  IF mgmt_ip = None \/ leaf_interfaces = None THEN None
        ELSE Some([ansible_host |-> mgmt_ip[1],
                   leaf_id |-> l + 1,
                   loopback0 |-> scheme.leaf_loopbacks[l + 1],
                   vtep_loopback |-> scheme.vtep_loopbacks[l + 1],
                   leaf_interfaces |-> leaf_interfaces[1]])

\* one iteration of generate_inventory's spine loop
BuildSpineStep ==
    /\ pc = "build_spine"
    /\ IF i < config.spine_count
       THEN LET spine_config == generate_spine_config(i, config, ip_scheme[1])
            IN  IF spine_config # None
                THEN /\ hosts' = [hosts EXCEPT !.spine =
                                    (Hostname("spine", i + 1) :> spine_config[1])
                                    @@ @]
                     /\ i' = i + 1
                     /\ UNCHANGED <<pc, error>>
                ELSE /\ Raise(<<"IndexError">>)
                     /\ UNCHANGED <<hosts, i>>
       ELSE /\ pc' = "build_leaf"
            /\ i' = 0
            /\ UNCHANGED <<hosts, error>>
    /\ UNCHANGED <<config, self, returned, confirm, spine_idx, leaf_idx, ip_iter, spine_loopbacks,
                   leaf_loopbacks, vtep_loopbacks, interconnect_ips, mgmt_ips,
                   ip_scheme, inventory, file, save_calls>>

\* one iteration of generate_inventory's leaf loop
BuildLeafStep ==
    /\ pc = "build_leaf"
    /\ IF i < config.leaf_count
       THEN LET leaf_config == generate_leaf_config(i, config, ip_scheme[1])
            IN  IF leaf_config # None
                THEN /\ hosts' = [hosts EXCEPT !.leaf =
                                    (Hostname("leaf", i + 1) :> leaf_config[1])
                                    @@ @]
                     /\ i' = i + 1
                     /\ UNCHANGED <<pc, error>>
                ELSE /\ Raise(<<"IndexError">>)
                     /\ UNCHANGED <<hosts, i>>
       ELSE /\ pc' = "return_inventory"
            /\ i' = 0
            /\ UNCHANGED <<hosts, error>>
    /\ UNCHANGED <<config, self, returned, confirm, spine_idx, leaf_idx, ip_iter, spine_loopbacks,
                   leaf_loopbacks, vtep_loopbacks, interconnect_ips, mgmt_ips,
                   ip_scheme, inventory, file, save_calls>>

\* generate_inventory returns to run, which displays the summary and prompts
ReturnInventory ==
    /\ pc = "return_inventory"
    /\ inventory' = Some(hosts)
    /\ pc' = "confirm"
    /\ UNCHANGED <<config, self, returned, confirm, planLocals, ip_scheme, hosts, error, file, save_calls>>

----------------------------------------------------------------------------
\* run: the save prompt and save_inventory

\* the answers to the save prompt, after strip().lower()
Answers == {"y", "Y", "yes", " YES", "n", ""}

\* input(...).strip().lower() on the answers above
StripLower(answer) ==
    CASE answer \in {"y", "Y"} -> "y"
      [] answer \in {"yes", " YES"} -> "yes"
      [] OTHER -> answer

\* variant of Accepts: everything but "n" counts as consent
AcceptsAllButNo(answer) == answer # "n"

\* confirm in ['y', 'yes']
Accepts(answer) == answer \in {"y", "yes"}

\* save_inventory: the dump is written, or open/dump raises and the handler
\* inside save_inventory reports it
SaveInventory ==
    /\ save_calls' = save_calls + 1
    /\ \/ file' = inventory
       \/ file' = file

Confirm ==
    /\ pc = "confirm"
    /\ \/ /\ \E answer \in Answers :
                /\ confirm' = Some(StripLower(answer))
                /\ IF Accepts(StripLower(answer))
                   THEN SaveInventory
                   ELSE UNCHANGED <<file, save_calls>>
          /\ error' = error
       \/ /\ error' = Some(<<"KeyboardInterrupt">>)
          /\ UNCHANGED <<file, save_calls, confirm>>
    /\ pc' = "done"
    /\ UNCHANGED <<config, self, returned, planLocals, ip_scheme, hosts, inventory>>

----------------------------------------------------------------------------

\* __init__: the fields of a new generator
NewInventory ==
    [all |-> [children |-> [spine |-> [hosts |-> EmptyDict],
                            leaf |-> [hosts |-> EmptyDict]]]]

NewGenerator ==
    /\ self_inventory = NewInventory
    /\ self_ip_scheme = EmptyDict

Init ==
    /\ \E ns \in Counts, nl \in Counts :
         \E sl \in SpineSubnets, ll \in LeafSubnets, vl \in VtepSubnets,
            ic \in InterconnectSubnets,
            m \in MgmtConfigs(ns, nl), f \in InterfaceConfigs(ns, nl) :
                config = Config(sl, ll, vl, ic, ns, nl, m, f)
    /\ pc = "parse"
    /\ i = 0
    /\ spine_idx = 0
    /\ leaf_idx = 0
    /\ ip_iter = 0
    /\ spine_loopbacks = << >>
    /\ leaf_loopbacks = << >>
    /\ vtep_loopbacks = << >>
    /\ interconnect_ips = EmptyDict
    /\ mgmt_ips = << >>
    /\ ip_scheme = None
    /\ hosts = None
    /\ inventory = None
    /\ error = None
    /\ file = None
    /\ save_calls = 0
    /\ confirm = None
    /\ NewGenerator
    /\ returned = << >>

Next ==
    \/ ParseSubnets
    \/ SpineLoopbackStep
    \/ LeafLoopbackStep
    \/ VtepLoopbackStep
    \/ InterconnectStep
    \/ ManualSpineStep
    \/ ManualLeafStep
    \/ AutoMgmtStep
    \/ ReturnPlan
    \/ BuildSpineStep
    \/ BuildLeafStep
    \/ ReturnInventory
    \/ Confirm

Spec == Init /\ [][Next]_vars

----------------------------------------------------------------------------
\* generate_ip_addresses called repeatedly, on one generator or on new ones

MaxCalls == 3

\* the configs of the repeated calls: 1 or MaxCount devices per role, an
\* interconnect subnet that serves them or one of 6 hosts, automatic or manual
\* management (complete, or the last leaf missing)
RepeatConfigsOf(n) ==
    {Config(Cidr(Ip(10, 255, 1, 0), 24), Cidr(Ip(10, 255, 2, 0), 24),
            Cidr(Ip(10, 255, 3, 0), 24), ic, n, n, m, f) :
        ic \in {Cidr(Ip(10, 1, 0, 0), 16), Cidr(Ip(10, 1, 0, 0), 29)},
        m \in {x \in MgmtConfigs(n, n) :
                  \/ x.mgmt_mode = "auto" /\ x.mgmt_start = 10
                  \/ x.mgmt_mode = "manual" /\ x.spine_mgmt_ips = SpineMgmtIps("full", n)},
        f \in {x \in InterfaceConfigs(n, n) :
                  x.interface_mapping_mode = "1" /\ x.leaf_interface_start = 1}}

RepeatConfigs == RepeatConfigsOf(1) \cup RepeatConfigsOf(MaxCount)

\* a call's locals are new objects: the lists and the dict start empty, the
\* iterator at the first host
FreshLocalsKeepPairs ==
    /\ i' = 0 /\ spine_idx' = 0 /\ leaf_idx' = 0 /\ ip_iter' = 0
    /\ spine_loopbacks' = << >> /\ leaf_loopbacks' = << >>
    /\ vtep_loopbacks' = << >> /\ mgmt_ips' = << >>
    /\ interconnect_ips' = interconnect_ips

FreshLocals ==
    /\ i' = 0 /\ spine_idx' = 0 /\ leaf_idx' = 0 /\ ip_iter' = 0
    /\ spine_loopbacks' = << >> /\ leaf_loopbacks' = << >>
    /\ vtep_loopbacks' = << >> /\ mgmt_ips' = << >>
    /\ interconnect_ips' = EmptyDict

\* the previous call has returned its plan or raised; the caller keeps the
\* outcome and calls generate_ip_addresses again, with any config, on the same
\* generator or on a new one
CallAgain ==
    /\ pc \in {"build_spine", "done"}
    /\ Len(returned) < MaxCalls - 1
    /\ returned' = Append(returned, [config |-> config, plan |-> ip_scheme,
                                     error |-> error])
    /\ \E c \in RepeatConfigs : config' = c
    /\ \/ UNCHANGED self
       \/ /\ self_inventory' = NewInventory
          /\ self_ip_scheme' = EmptyDict
    /\ FreshLocals
    /\ pc' = "parse"
    /\ ip_scheme' = None
    /\ error' = None
    /\ hosts' = None
    /\ UNCHANGED <<inventory, file, save_calls, confirm>>

InitRepeat ==
    /\ config \in RepeatConfigs
    /\ pc = "parse"
    /\ i = 0 /\ spine_idx = 0 /\ leaf_idx = 0 /\ ip_iter = 0
    /\ spine_loopbacks = << >> /\ leaf_loopbacks = << >>
    /\ vtep_loopbacks = << >> /\ mgmt_ips = << >>
    /\ interconnect_ips = EmptyDict
    /\ ip_scheme = None /\ hosts = None /\ inventory = None
    /\ error = None /\ file = None /\ save_calls = 0 /\ confirm = None
    /\ NewGenerator
    /\ returned = << >>

NextRepeat ==
    \/ ParseSubnets
    \/ SpineLoopbackStep
    \/ LeafLoopbackStep
    \/ VtepLoopbackStep
    \/ InterconnectStep
    \/ ManualSpineStep
    \/ ManualLeafStep
    \/ AutoMgmtStep
    \/ ReturnPlan
    \/ CallAgain

SpecRepeat == InitRepeat /\ [][NextRepeat]_vars

----------------------------------------------------------------------------
\* Vocabulary of the properties

spine_count == config.spine_count
leaf_count == config.leaf_count

\* the counts of a FabricConfig: N_s >= 1 and N_l >= 1
ValidCounts == spine_count >= 1 /\ leaf_count >= 1

\* a is a usable host address of the network: inside it, and neither its network
\* nor its broadcast address unless the prefix is /31 or /32
IsUsable(net, a) ==
    LET size == 2 ^ (32 - net.prefixlen)
    IN  /\ net.network_address <= a
        /\ a < net.network_address + size
        /\ net.prefixlen <= 30 =>
              a # net.network_address /\ a # net.network_address + size - 1

\* the number of usable host addresses of the network
UsableCount(net) ==
    LET size == 2 ^ (32 - net.prefixlen)
    IN  IF net.prefixlen <= 30 THEN size - 2 ELSE size

\* a is the usable host at position k (0-based) of the ascending enumeration:
\* it is usable and exactly k usable hosts are smaller
IsUsableAt(net, a, k) ==
    /\ IsUsable(net, a)
    /\ Cardinality({b \in net.network_address .. a - 1 : IsUsable(net, b)}) = k

\* the text of the usable host at position k followed by a suffix
IsHostText(text, net, k, suffix) ==
    \E a \in net.network_address .. net.network_address + k + 1 :
        IsUsableAt(net, a, k) /\ text = Str(a) \o suffix

\* numbers that may occur as addresses of a plan: the start of each configured net
AddressRange ==
    UNION {{Subnets(config)[n].addr + k : k \in 0 .. 2 * MaxCount * MaxCount + 2} :
              n \in 1 .. 4}

\* the address a plan entry carries: its text without a /32 or /30 suffix
AddressOf(text) ==
    IF \E a \in AddressRange : text \in {Str(a) \o "/32", Str(a) \o "/30"}
    THEN Str(CHOOSE a \in AddressRange : text \in {Str(a) \o "/32", Str(a) \o "/30"})
    ELSE text

\* the number a /30 interconnect entry carries
NumberOf(text) == CHOOSE a \in AddressRange : text = Str(a) \o "/30"

\* the entries of an interconnect dict, in some order
RECURSIVE PairTexts(_, _)
PairTexts(d, keys) ==
    IF keys = {} THEN << >>
    ELSE LET key == CHOOSE key \in keys : TRUE
         IN  <<d[key].spine_ip, d[key].leaf_ip>> \o PairTexts(d, keys \ {key})

\* every address text of a plan, category after category
PlanTexts(plan) ==
    plan.spine_loopbacks \o plan.leaf_loopbacks \o plan.vtep_loopbacks
        \o PairTexts(plan.interconnect_ips, DOMAIN plan.interconnect_ips)
        \o plan.mgmt_ips

----------------------------------------------------------------------------
\* C1: for every config with spine_count >= 1 and leaf_count >= 1 for which
\* generate_ip_addresses returns a plan, no IP address appears twice among the
\* plan's loopbacks, interconnect endpoints and management addresses (also with
\* overlapping subnets or repeated manual addresses).
C1_NoAddressTwice ==
    (ip_scheme # None /\ ValidCounts) =>
        LET texts == PlanTexts(ip_scheme[1])
        IN  \A p, q \in 1 .. Len(texts) :
                p < q => AddressOf(texts[p]) # AddressOf(texts[q])

\* C2: when a plan is returned for N_s, N_l >= 1, it holds exactly the N_s * N_l
\* pairs (s, l), and pair (s, l) has the usable hosts at positions
\* 2 * (s * N_l + l) (spine side) and 2 * (s * N_l + l) + 1 (leaf side) of the
\* interconnect subnet's ascending enumeration, each with suffix /30.
C2_InterconnectPositions ==
    (ip_scheme # None /\ ValidCounts) =>
        LET pairs == ip_scheme[1].interconnect_ips
        IN  /\ DOMAIN pairs = {PairKey(s, l) : s \in 0 .. spine_count - 1,
                                              l \in 0 .. leaf_count - 1}
            /\ Cardinality(DOMAIN pairs) = spine_count * leaf_count
            /\ \A s \in 0 .. spine_count - 1, l \in 0 .. leaf_count - 1 :
                  /\ IsHostText(pairs[PairKey(s, l)].spine_ip, interconnect_net,
                                2 * (s * leaf_count + l), "/30")
                  /\ IsHostText(pairs[PairKey(s, l)].leaf_ip, interconnect_net,
                                2 * (s * leaf_count + l) + 1, "/30")

\* C2 witness: the plan for 2 spines and 2 leaves in 10.1.0.0/16 is returned,
\* with pairs taking hosts 1-2, 3-4, 5-6, 7-8 in spine-major order
C2_Witness ==
    /\ ip_scheme # None
    /\ spine_count = 2 /\ leaf_count = 2
    /\ config.interconnect_subnet_base = Cidr(Ip(10, 1, 0, 0), 16)
    /\ ip_scheme[1].interconnect_ips["spine1_leaf1"] =
          [spine_ip |-> "10.1.0.1/30", leaf_ip |-> "10.1.0.2/30"]
    /\ ip_scheme[1].interconnect_ips["spine1_leaf2"] =
          [spine_ip |-> "10.1.0.3/30", leaf_ip |-> "10.1.0.4/30"]
    /\ ip_scheme[1].interconnect_ips["spine2_leaf1"] =
          [spine_ip |-> "10.1.0.5/30", leaf_ip |-> "10.1.0.6/30"]
    /\ ip_scheme[1].interconnect_ips["spine2_leaf2"] =
          [spine_ip |-> "10.1.0.7/30", leaf_ip |-> "10.1.0.8/30"]

\* C3: in every returned plan (N_s, N_l >= 1) the two addresses of a pair are
\* the two usable hosts of one /30: same upper 30 bits, low two bits neither
\* 00 nor 11.
C3_PairSharesSlash30 ==
    (ip_scheme # None /\ ValidCounts) =>
        \A key \in DOMAIN ip_scheme[1].interconnect_ips :
            LET a == NumberOf(ip_scheme[1].interconnect_ips[key].spine_ip)
                b == NumberOf(ip_scheme[1].interconnect_ips[key].leaf_ip)
            IN  /\ a \div 4 = b \div 4
                /\ a % 4 \in {1, 2}
                /\ b % 4 \in {1, 2}

\* C4: whenever generate_inventory returns (N_s, N_l >= 1, either mapping
\* mode), every leaf record has spine_count + 1 interface entries and every
\* spine record has leaf_count entries.
C4_InterfaceCounts ==
    (inventory # None /\ ValidCounts) =>
        /\ \A h \in DOMAIN inventory[1].spine :
              Len(inventory[1].spine[h].spine_interfaces) = leaf_count
        /\ \A h \in DOMAIN inventory[1].leaf :
              Len(inventory[1].leaf[h].leaf_interfaces) = spine_count + 1

\* C5: when a plan is returned for N_s, N_l >= 1, each loopback list has
\* exactly N entries (N_s for spines, N_l for leaf and VTEP), entry i is the
\* usable host at position i of its subnet with suffix /32, and the record of
\* spine s carries spine_loopbacks[s], that of leaf l leaf_loopbacks[l] and
\* vtep_loopbacks[l].
C5_Loopbacks ==
    (ip_scheme # None /\ ValidCounts) =>
        LET plan == ip_scheme[1]
        IN  /\ Len(plan.spine_loopbacks) = spine_count
            /\ Len(plan.leaf_loopbacks) = leaf_count
            /\ Len(plan.vtep_loopbacks) = leaf_count
            /\ \A k \in 0 .. spine_count - 1 :
                  IsHostText(plan.spine_loopbacks[k + 1], spine_loopback_net, k, "/32")
            /\ \A k \in 0 .. leaf_count - 1 :
                  /\ IsHostText(plan.leaf_loopbacks[k + 1], leaf_loopback_net, k, "/32")
                  /\ IsHostText(plan.vtep_loopbacks[k + 1], vtep_loopback_net, k, "/32")
            /\ \A k \in 0 .. spine_count - 1 :
                  SpineName(k + 1) \in DOMAIN hosts.spine =>
                      hosts.spine[SpineName(k + 1)].loopback0 =
                          plan.spine_loopbacks[k + 1]
            /\ \A k \in 0 .. leaf_count - 1 :
                  LeafName(k + 1) \in DOMAIN hosts.leaf =>
                      /\ hosts.leaf[LeafName(k + 1)].loopback0 =
                            plan.leaf_loopbacks[k + 1]
                      /\ hosts.leaf[LeafName(k + 1)].vtep_loopback =
                            plan.vtep_loopbacks[k + 1]
            /\ inventory # None =>
                  /\ inventory[1] = hosts
                  /\ DOMAIN hosts.spine = {SpineName(k) : k \in 1 .. spine_count}
                  /\ DOMAIN hosts.leaf = {LeafName(k) : k \in 1 .. leaf_count}

\* C5 witness: the inventory for 2 spines and 2 leaves with the default
\* loopback subnets and a /31 VTEP subnet is returned
C5_Witness ==
    /\ inventory # None
    /\ spine_count = 2 /\ leaf_count = 2
    /\ ip_scheme[1].spine_loopbacks = <<"10.255.1.1/32", "10.255.1.2/32">>
    /\ ip_scheme[1].leaf_loopbacks = <<"10.255.2.1/32", "10.255.2.2/32">>
    /\ ip_scheme[1].vtep_loopbacks = <<"10.255.3.0/32", "10.255.3.1/32">>
    /\ inventory[1].spine["spine02"].loopback0 = "10.255.1.2/32"
    /\ inventory[1].leaf["leaf02"].vtep_loopback = "10.255.3.1/32"

\* C6: in auto management mode, when a plan is returned for N_s, N_l >= 1, the
\* management list has exactly N_s + N_l entries, entry i is the text
\* base.(mgmt_start + i), the entries are pairwise distinct, spine s is given
\* entry s and leaf l entry N_s + l as ansible_host.
C6_AutoManagement ==
    (config.mgmt_mode # "manual" /\ ip_scheme # None /\ ValidCounts) =>
        LET mgmt == ip_scheme[1].mgmt_ips
        IN  /\ Len(mgmt) = spine_count + leaf_count
            /\ \A k \in 0 .. spine_count + leaf_count - 1 :
                  mgmt[k + 1] =
                      config.mgmt_base_ip \o "." \o ToString(config.mgmt_start + k)
            /\ \A p, q \in 1 .. Len(mgmt) : p # q => mgmt[p] # mgmt[q]
            /\ \A s \in 0 .. spine_count - 1 :
                  SpineName(s + 1) \in DOMAIN hosts.spine =>
                      hosts.spine[SpineName(s + 1)].ansible_host = mgmt[s + 1]
            /\ \A l \in 0 .. leaf_count - 1 :
                  LeafName(l + 1) \in DOMAIN hosts.leaf =>
                      hosts.leaf[LeafName(l + 1)].ansible_host =
                          mgmt[spine_count + l + 1]
            /\ inventory # None =>
                  /\ inventory[1] = hosts
                  /\ DOMAIN hosts.spine = {SpineName(k) : k \in 1 .. spine_count}
                  /\ DOMAIN hosts.leaf = {LeafName(k) : k \in 1 .. leaf_count}

\* C6 witness: the inventory for 2 spines and 2 leaves from base 192.168.1,
\* start 10: spines take .10 and .11, leaves .12 and .13
C6_Witness ==
    /\ inventory # None
    /\ config.mgmt_mode = "auto"
    /\ spine_count = 2 /\ leaf_count = 2
    /\ ip_scheme[1].mgmt_ips =
          <<"192.168.1.10", "192.168.1.11", "192.168.1.12", "192.168.1.13">>
    /\ inventory[1].spine["spine02"].ansible_host = "192.168.1.11"
    /\ inventory[1].leaf["leaf01"].ansible_host = "192.168.1.12"
    /\ inventory[1].leaf["leaf02"].ansible_host = "192.168.1.13"

\* some exact-match list is shorter than required: a spine's has fewer than
\* leaf_count entries or a leaf's fewer than spine_count + 1 (no list counts as empty)
ShortInterfaceList ==
    \/ \E n \in 1 .. spine_count :
          Len(GetList(config.spine_interfaces, SpineName(n))) < leaf_count
    \/ \E n \in 1 .. leaf_count :
          Len(GetList(config.leaf_interfaces, LeafName(n))) < spine_count + 1

\* C7: in exact-match mode (N_s, N_l >= 1), when some supplied interface list
\* is too short, building fails: run ends with an error, no inventory is
\* returned, and no device record with fewer interfaces than required exists.
C7_ShortListRaises ==
    (config.interface_mapping_mode = "2" /\ ValidCounts /\ ShortInterfaceList) =>
        /\ inventory = None
        /\ pc = "done" => error # None
        /\ hosts # None =>
              /\ \A h \in DOMAIN hosts.spine :
                    Len(hosts.spine[h].spine_interfaces) >= leaf_count
              /\ \A h \in DOMAIN hosts.leaf :
                    Len(hosts.leaf[h].leaf_interfaces) >= spine_count + 1

\* the number of loop iterations range(n) makes
Need(n) == IF n > 0 THEN n ELSE 0

\* the four CIDRs parse and the three loopback subnets have the usable hosts
\* the loopback loops index
LoopbacksServed ==
    /\ \A k \in 1 .. 4 : ValidNetwork(Subnets(config)[k])
    /\ UsableCount(spine_loopback_net) >= Need(spine_count)
    /\ UsableCount(leaf_loopback_net) >= Need(leaf_count)
    /\ UsableCount(vtep_loopback_net) >= Need(leaf_count)

\* the interconnect subnet has the 2 * N_s * N_l usable hosts the pair loop draws
InterconnectServed ==
    UsableCount(interconnect_net) >= 2 * Need(spine_count) * Need(leaf_count)

\* the hostnames spine01..spineN_s, leaf01..leafN_l without a manual address
MissingSpines == {n \in 1 .. spine_count : SpineName(n) \notin DOMAIN config.spine_mgmt_ips}
MissingLeaves == {n \in 1 .. leaf_count : LeafName(n) \notin DOMAIN config.leaf_mgmt_ips}

\* the first hostname, spines before leaves, without a manual address
FirstMissing ==
    IF MissingSpines # {}
    THEN SpineName(CHOOSE n \in MissingSpines : \A m \in MissingSpines : n <= m)
    ELSE LeafName(CHOOSE n \in MissingLeaves : \A m \in MissingLeaves : n <= m)

\* C8: in manual management mode, when a hostname among spine01..spineN_s,
\* leaf01..leafN_l has no supplied address, no plan (and so no inventory and no
\* file) is ever produced, and the run whose subnets serve the earlier loops
\* ends with the KeyError of the first missing hostname; when every hostname
\* has an address, the returned management list is the supplied addresses
\* verbatim, spines first then leaves.
C8_ManualManagement ==
    config.mgmt_mode = "manual" =>
        /\ (MissingSpines # {} \/ MissingLeaves # {}) =>
              /\ ip_scheme = None /\ hosts = None /\ inventory = None /\ file = None
              /\ (pc = "done" /\ LoopbacksServed /\ InterconnectServed) =>
                    error = Some(<<"KeyError", FirstMissing>>)
        /\ (MissingSpines = {} /\ MissingLeaves = {} /\ ip_scheme # None) =>
              ip_scheme[1].mgmt_ips =
                  [k \in 1 .. Need(spine_count) + Need(leaf_count) |->
                      IF k <= Need(spine_count)
                      THEN config.spine_mgmt_ips[SpineName(k)]
                      ELSE config.leaf_mgmt_ips[LeafName(k - Need(spine_count))]]

\* C8 witness: manual mode with leaf02 missing: the loopbacks, the pairs and
\* three management addresses were computed, the run ended with KeyError and
\* nothing was returned
C8_Witness ==
    /\ config.mgmt_mode = "manual"
    /\ spine_count = 2 /\ leaf_count = 2
    /\ MissingSpines = {} /\ MissingLeaves = {2}
    /\ pc = "done"
    /\ error = Some(<<"KeyError", "leaf02">>)
    /\ Len(spine_loopbacks) = 2
    /\ Cardinality(DOMAIN interconnect_ips) = 4
    /\ Len(mgmt_ips) = 3
    /\ ip_scheme = None /\ inventory = None

\* C9: for N_s, N_l >= 1, when the interconnect subnet has fewer than
\* 2 * N_s * N_l usable hosts, no plan (and so no inventory and no file) is
\* ever produced, and the run whose subnets serve the loopback loops ends with
\* StopIteration at the first pair that cannot be served: exactly the pairs
\* before it, in spine-major order, were allocated.
C9_InterconnectExhausted ==
    (ValidCounts /\ UsableCount(interconnect_net) < 2 * spine_count * leaf_count) =>
        /\ ip_scheme = None /\ hosts = None /\ inventory = None /\ file = None
        /\ (pc = "done" /\ LoopbacksServed) =>
              LET served == UsableCount(interconnect_net) \div 2
              IN  /\ error = Some(<<"StopIteration">>)
                  /\ spine_idx * leaf_count + leaf_idx = served
                  /\ DOMAIN interconnect_ips =
                        {PairKey(p[1], p[2]) :
                            p \in {q \in (0 .. spine_count - 1) \X (0 .. leaf_count - 1) :
                                      q[1] * leaf_count + q[2] < served}}

\* C9 witness: 2 spines and 2 leaves in a subnet of 6 hosts: three pairs and all
\* loopbacks were computed, the fourth pair raised and nothing was returned
C9_Witness ==
    /\ spine_count = 2 /\ leaf_count = 2
    /\ config.interconnect_subnet_base = Cidr(Ip(10, 1, 0, 0), 29)
    /\ pc = "done"
    /\ error = Some(<<"StopIteration">>)
    /\ DOMAIN interconnect_ips = {"spine1_leaf1", "spine1_leaf2", "spine2_leaf1"}
    /\ Len(spine_loopbacks) = 2 /\ Len(vtep_loopbacks) = 2
    /\ ip_scheme = None /\ inventory = None

\* C10: when spine_count <= 0 or leaf_count <= 0 the run ends with an error and
\* neither a plan nor an inventory is produced.
C10_NonPositiveCountsRejected ==
    (spine_count <= 0 \/ leaf_count <= 0) =>
        /\ ip_scheme = None
        /\ inventory = None
        /\ pc = "done" => error # None

\* the interface list of leaf l and of spine s in the returned inventory
LeafList(l) == inventory[1].leaf[LeafName(l + 1)].leaf_interfaces
SpineList(s) == inventory[1].spine[SpineName(s + 1)].spine_interfaces

\* C11: in the returned inventory (N_s, N_l >= 1, either mapping mode) every
\* leaf l has N_s + 1 interface entries: entry s is the uplink to spine s+1,
\* with the fields interface, description and ip only (no vlan, no mode), and
\* the last entry is the access port, with mode "access", vlan 100 + l in
\* decimal and no ip.
C11_LeafInterfaceList ==
    (ValidCounts /\ inventory # None) =>
        \A l \in 0 .. leaf_count - 1 :
            /\ Len(LeafList(l)) = spine_count + 1
            /\ \A s \in 0 .. spine_count - 1 :
                  /\ DOMAIN LeafList(l)[s + 1] = {"interface", "description", "ip"}
                  /\ LeafList(l)[s + 1].description = "Link to " \o SpineName(s + 1)
            /\ DOMAIN LeafList(l)[spine_count + 1] =
                  {"interface", "description", "mode", "vlan"}
            /\ LeafList(l)[spine_count + 1].mode = "access"
            /\ LeafList(l)[spine_count + 1].vlan = ToString(100 + l)

\* the entries of an interface list carry pairwise distinct identifiers
DistinctInterfaces(list) ==
    \A j, k \in 1 .. Len(list) : list[j].interface = list[k].interface => j = k

\* sequential numbering in the returned inventory: spine s's entry l is
\* 10GE1/0/(spine_interface_start + l), leaf l's uplink s is
\* 10GE1/0/(leaf_interface_start + s), its last entry 10GE1/0/<leaf_access_interface>
SequentialNames ==
    /\ \A s \in 0 .. spine_count - 1 :
          /\ Len(SpineList(s)) = leaf_count
          /\ \A l \in 0 .. leaf_count - 1 :
                SpineList(s)[l + 1].interface =
                    "10GE1/0/" \o ToString(config.spine_interface_start + l)
    /\ \A l \in 0 .. leaf_count - 1 :
          /\ Len(LeafList(l)) = spine_count + 1
          /\ \A s \in 0 .. spine_count - 1 :
                LeafList(l)[s + 1].interface =
                    "10GE1/0/" \o ToString(config.leaf_interface_start + s)
          /\ LeafList(l)[spine_count + 1].interface =
                "10GE1/0/" \o config.leaf_access_interface

\* C12: in sequential mode (N_s, N_l >= 1) the returned inventory numbers the
\* interfaces from the start indices, and within every device record the
\* interface identifiers are pairwise distinct; in particular a leaf's access
\* port is none of its uplinks.
C12_SequentialDistinct ==
    (config.interface_mapping_mode # "2" /\ ValidCounts /\ inventory # None) =>
        /\ SequentialNames
        /\ \A s \in 0 .. spine_count - 1 : DistinctInterfaces(SpineList(s))
        /\ \A l \in 0 .. leaf_count - 1 : DistinctInterfaces(LeafList(l))

\* a call of generate_ip_addresses has ended: its plan was returned or it raised
CallEnded == pc \in {"build_spine", "done"}

\* C13 (state part): the generator's fields stay as __init__ set them, and a
\* call that has ended has the outcome (the plan, or the error) of every
\* earlier call with the same config, whatever was called in between.
C13_SameConfigSamePlan ==
    /\ self_inventory = NewInventory
    /\ self_ip_scheme = EmptyDict
    /\ CallEnded =>
          \A k \in 1 .. Len(returned) :
              returned[k].config = config =>
                  /\ returned[k].plan = ip_scheme
                  /\ returned[k].error = error

\* C13: planning is deterministic and stateless: equal configs give equal
\* outcomes on the same or on a new generator, also after calls with other
\* configs, the generator's fields never change, and no step of a call changes
\* the config.
C13_PlanningStateless ==
    /\ []C13_SameConfigSamePlan
    /\ [][pc' # "parse" => config' = config]_vars

\* C13 witness: a plan for 2 spines and 2 leaves was returned, then a call for
\* 1 spine and 1 leaf, then the first config again returned the same plan
C13_Witness ==
    /\ Len(returned) = 2
    /\ pc = "build_spine"
    /\ spine_count = 2 /\ leaf_count = 2
    /\ returned[1].config = config
    /\ returned[2].config.spine_count = 1
    /\ returned[2].plan # None
    /\ ip_scheme # None
    /\ returned[1].plan = ip_scheme
    /\ Cardinality(DOMAIN ip_scheme[1].interconnect_ips) = 4

\* the pair (s, l) of the returned plan
PairOf(s, l) == ip_scheme[1].interconnect_ips[PairKey(s, l)]

\* the positions of the interface lists of the returned inventory, each as
\* <<role, device, position>>, and those whose entry carries address a
AllInterfaces ==
    {<<"spine", s, k>> : s \in 0 .. spine_count - 1, k \in 1 .. leaf_count + 1}
    \cup {<<"leaf", l, k>> : l \in 0 .. leaf_count - 1, k \in 1 .. spine_count + 1}

CarriedBy(a) ==
    {e \in AllInterfaces :
        LET list == IF e[1] = "spine" THEN SpineList(e[2]) ELSE LeafList(e[2])
        IN  /\ e[3] <= Len(list)
            /\ "ip" \in DOMAIN list[e[3]]
            /\ list[e[3]].ip = a}

\* C14: in the returned inventory (N_s, N_l >= 1, either mapping mode) entry l
\* of spine s's list carries the spine-side address of pair (s, l) and names
\* leaf l+1, entry s of leaf l's list carries the leaf-side address of the same
\* pair and names spine s+1, and each of the two addresses is on exactly one
\* interface of the whole inventory (so on no interface of another pair).
C14_LinkEndsAgree ==
    (ValidCounts /\ inventory # None) =>
        \A s \in 0 .. spine_count - 1 : \A l \in 0 .. leaf_count - 1 :
            /\ Len(SpineList(s)) > l
            /\ SpineList(s)[l + 1].ip = PairOf(s, l).spine_ip
            /\ SpineList(s)[l + 1].description = "Link to " \o LeafName(l + 1)
            /\ Len(LeafList(l)) > s
            /\ "ip" \in DOMAIN LeafList(l)[s + 1]
            /\ LeafList(l)[s + 1].ip = PairOf(s, l).leaf_ip
            /\ LeafList(l)[s + 1].description = "Link to " \o SpineName(s + 1)
            /\ CarriedBy(PairOf(s, l).spine_ip) = {<<"spine", s, l + 1>>}
            /\ CarriedBy(PairOf(s, l).leaf_ip) = {<<"leaf", l, s + 1>>}

\* C15: save_inventory is called at most once in a run, and only in a run
\* whose plan and inventory were both returned without error and whose answer
\* to the prompt was "y" or "yes"; a run that ended with an error, with another
\* answer or with an interrupt never called it and wrote no file; whatever the
\* file holds is the returned inventory with all its hosts.
C15_SaveOnlyAfterConsent ==
    /\ save_calls <= 1
    /\ save_calls = 1 =>
          /\ pc = "done"
          /\ ip_scheme # None /\ inventory # None
          /\ error = None
          /\ confirm \in {Some("y"), Some("yes")}
    /\ (pc = "done" /\ (error # None \/ confirm \notin {Some("y"), Some("yes")})) =>
          save_calls = 0 /\ file = None
    /\ file # None =>
          /\ save_calls = 1
          /\ file = inventory
          /\ DOMAIN file[1].spine = Hostnames("spine", spine_count)
          /\ DOMAIN file[1].leaf = Hostnames("leaf", leaf_count)

\* C15 witness: the run for 2 spines and 2 leaves ended after the answer "yes"
\* with one call of save_inventory, which wrote the four hosts
C15_Witness ==
    /\ pc = "done"
    /\ spine_count = 2 /\ leaf_count = 2
    /\ confirm = Some("yes")
    /\ save_calls = 1
    /\ file = inventory
    /\ DOMAIN file[1].spine = {"spine01", "spine02"}
    /\ DOMAIN file[1].leaf = {"leaf01", "leaf02"}

====
